---------------------------- MODULE Spec2Model ----------------------------
(***************************************************************************)
(* FileWatcher (src/src/FileWatcher.ts): directory-scoped routing of       *)
(* add/change/unlink notifications to registered handlers.                 *)
(*                                                                         *)
(* Strings are modelled structurally, because TLA+ strings are atoms:      *)
(*   - a name (one path segment) is a sequence of one-character strings,   *)
(*     so that path.extname and String.toLowerCase are computed;           *)
(*   - a path is a record [abs, segs]: abs says whether the string starts  *)
(*     with "/", segs are its segments as spelled ("./a" has the segments  *)
(*     "." and "a", and is a different string from "a" and from "/w/a").   *)
(***************************************************************************)
EXTENDS Integers, Sequences, FiniteSets, TLC

(***************************************************************************)
(* Bounds of the model.                                                    *)
(***************************************************************************)
\* number of public API calls made on the FileWatcher instance
MaxApiCalls == 2
\* number of changes made to the file system while the instance lives
MaxChanges == 1

(***************************************************************************)
(* node:path (POSIX flavour) and String.prototype.toLowerCase.             *)
(***************************************************************************)
Dot == <<".">>

DotDot == <<".", ".">>

Abs(segs) == [abs |-> TRUE, segs |-> segs]

Rel(segs) == [abs |-> FALSE, segs |-> segs]

\* toLowerCase on one character, over the alphabet the model's names use
LowerChar(ch) ==
    CASE ch = "J" -> "j"
      [] ch = "S" -> "s"
      [] ch = "T" -> "t"
      [] OTHER -> ch

toLowerCase(name) == [i \in 1..Len(name) |-> LowerChar(name[i])]

\* index of the last "." of a name, 0 if there is none
LastDot(name) ==
    LET dots == {i \in 1..Len(name) : name[i] = "."}
    IN  IF dots = {} THEN 0 ELSE CHOOSE i \in dots : \A j \in dots : j <= i

\* path.extname: from the last "." to the end; "" if there is no "." or the
\* only "." is the first character of the name
extname(name) ==
    IF LastDot(name) <= 1 THEN <<>> ELSE SubSeq(name, LastDot(name), Len(name))

\* path.basename: the last segment
basename(p) == IF p.segs = <<>> THEN <<>> ELSE p.segs[Len(p.segs)]

\* path.dirname: "/" and "." are their own parents; a one-segment relative
\* string has the parent "."
dirname(p) ==
    IF p.abs
    THEN IF Len(p.segs) <= 1 THEN Abs(<<>>)
         ELSE Abs(SubSeq(p.segs, 1, Len(p.segs) - 1))
    ELSE IF Len(p.segs) <= 1 THEN Rel(<<Dot>>)
         ELSE Rel(SubSeq(p.segs, 1, Len(p.segs) - 1))

\* segment list with "." dropped and "x/.." folded, as path.normalize does
RECURSIVE NormSegs(_, _)
NormSegs(todo, done) ==
    IF todo = <<>> THEN done
    ELSE IF Head(todo) = Dot THEN NormSegs(Tail(todo), done)
    ELSE IF Head(todo) = DotDot /\ done # <<>> /\ done[Len(done)] # DotDot
         THEN NormSegs(Tail(todo), SubSeq(done, 1, Len(done) - 1))
    ELSE NormSegs(Tail(todo), Append(done, Head(todo)))

\* ".." above the root stays at the root
RECURSIVE DropLeadingDotDot(_)
DropLeadingDotDot(segs) ==
    IF segs # <<>> /\ Head(segs) = DotDot THEN DropLeadingDotDot(Tail(segs))
    ELSE segs

\* path.normalize; the empty relative result is spelled "."
normalize(p) ==
    IF p.abs THEN Abs(DropLeadingDotDot(NormSegs(p.segs, <<>>)))
    ELSE IF NormSegs(p.segs, <<>>) = <<>> THEN Rel(<<Dot>>)
    ELSE Rel(NormSegs(p.segs, <<>>))

\* path.join(a, b): the two strings joined by "/" and normalized
join(a, b) == normalize([abs |-> a.abs, segs |-> a.segs \o b.segs])

\* path.resolve(from, p): p itself when absolute, else appended to from
resolve(from, p) ==
    IF p.abs THEN Abs(DropLeadingDotDot(NormSegs(p.segs, <<>>)))
    ELSE Abs(DropLeadingDotDot(NormSegs(from.segs \o p.segs, <<>>)))

RECURSIVE CommonLen(_, _)
CommonLen(s, t) ==
    IF s = <<>> \/ t = <<>> \/ Head(s) # Head(t) THEN 0
    ELSE 1 + CommonLen(Tail(s), Tail(t))

\* whether s is a prefix of t
IsPrefix(s, t) == Len(s) <= Len(t) /\ SubSeq(t, 1, Len(s)) = s


\* path.relative(from, to): both resolved against the working directory,
\* then ".." for every segment of from below the common prefix, then the
\* rest of to
relative(cwd, from, to) ==
    LET f == resolve(cwd, from).segs
        t == resolve(cwd, to).segs
        c == CommonLen(f, t)
    IN  Rel([i \in 1..(Len(f) - c) |-> DotDot] \o SubSeq(t, c + 1, Len(t)))

(***************************************************************************)
(* The world the instance runs in: the working directory, the directory    *)
(* tree (fixed) and the files that may exist in it.                        *)
(***************************************************************************)
NameW == <<"w">>

NameA == <<"a">>

NameB == <<"b">>

NameC == <<"c">>

NameZ == <<"z">>

\* process.cwd() at construction
Cwd == Abs(<<NameW>>)

DirA == Abs(<<NameW, NameA>>)

DirAB == Abs(<<NameW, NameA, NameB>>)

DirC == Abs(<<NameW, NameC>>)

\* a directory that does not exist
DirZ == Abs(<<NameW, NameZ>>)

ExistingDirs == {Abs(<<>>), Cwd, DirA, DirAB, DirC}

\* /w/a/b/f.js
FileDeep == Abs(<<NameW, NameA, NameB, <<"f", ".", "j", "s">>>>)

\* /w/r.TS, directly in the working directory
FileTop == Abs(<<NameW, <<"r", ".", "T", "S">>>>)

AllFiles == {FileDeep, FileTop}

\* the files on disk when the instance is constructed
FilesAtConstruction == {FileDeep}

EventTypes == {"add", "change", "unlink"}

\* directory strings the caller passes to setHandler
HandlerDirs == {Rel(<<Dot>>), DirA, DirAB}

\* argument lists the caller passes to setMonitoredDirectories
MonitoredArgs == {<<Rel(<<Dot, NameA>>), Rel(<<NameC>>)>>, <<Rel(<<NameZ>>)>>}

\* argument lists the caller passes to ignoreDirectory / unignoreDirectory
IgnoreArgs == {<<DirZ, DirAB>>}

\* argument lists the caller passes to setAllowedExtensions
ExtensionArgs == {<<<<".", "J", "S">>>>, <<<<".", "t", "s">>>>}

(***************************************************************************)
(* State.                                                                  *)
(***************************************************************************)
VARIABLES
    watchers,             \* Map<string, FSWatcher>: directory string -> watcher id
    dirHandlers,          \* Map<string, Map<eventType, callback>>
    ignoredDirectories,   \* Set<string>
    allowedExtensions,    \* Set<string>
    monitoredDirectories, \* Set<string>, in insertion order
    initialFiles,         \* Set<string>
    nextWatcher,          \* identity of the next FSWatcher chokidar.watch creates
    files,                \* the files on disk
    pending,              \* raw notifications the watchers have not emitted yet
    apiCalls,             \* number of API calls made
    changes,              \* number of file system changes made
    change,               \* <<>> or <<the latest file system change>>
    quiet,                \* no API call was made since the latest change
    atStart,              \* files on disk at the latest startWatching call, not deleted since
    openedWith,           \* watcher id -> ignoredDirectories when the watcher was created
    log,                  \* what listeners and handlers received since the latest change
    last                  \* the latest step: operation, notification, outcome

vars == <<watchers, dirHandlers, ignoredDirectories, allowedExtensions,
          monitoredDirectories, initialFiles, nextWatcher, files, pending,
          apiCalls, changes, change, quiet, atStart, openedWith, log, last>>

baseDir == Cwd

Range(f) == {f[x] : x \in DOMAIN f}

SeqRange(s) == {s[i] : i \in 1..Len(s)}

EmptyMap == [x \in {} |-> x]

\* a Map with key k set to v
MapSet(m, k, v) == [x \in DOMAIN m \cup {k} |-> IF x = k THEN v ELSE m[x]]

(***************************************************************************)
(* The notification source (chokidar) as FileWatcher.ts uses it: a watcher *)
(* watches the subtree of the directory string it was given, reports each  *)
(* file below it by the watched string joined with the file's place below  *)
(* it, asks the ignored predicate about every candidate path, reports the  *)
(* files already on disk as "add" when it starts, and emits nothing once   *)
(* closed.                                                                 *)
(***************************************************************************)
\* whether file (an absolute path) lies in the subtree of directory
Covers(directory, file) == IsPrefix(resolve(baseDir, directory).segs, file.segs)

\* the filePath a watcher of directory reports for file
EventPath(directory, file) ==
    LET d == resolve(baseDir, directory).segs
    IN  join(normalize(directory), Rel(SubSeq(file.segs, Len(d) + 1, Len(file.segs))))

\* the raw notification of watcher w, which watches directory
Notification(w, directory, eventType, file, initial) ==
    [watcher |-> w, directory |-> directory, eventType |-> eventType,
     file |-> file, initial |-> initial]

\* the ignored option of watchDirectory: the condition of its if is the
\* string baseDir + '/' + ignoredDir, which is never empty, hence truthy
ignored(candidate) ==
    \E ignoredDir \in ignoredDirectories :
        Len(baseDir.segs) + 1 + Len(ignoredDir.segs) > 0

\* watchDirectory on the registry st = [watchers, pending, nextWatcher]
watchDirectory(directory, st) ==
    IF directory \in DOMAIN st.watchers THEN st
    ELSE [watchers |-> MapSet(st.watchers, directory, st.nextWatcher),
          pending |-> st.pending \cup
              {Notification(st.nextWatcher, directory, "add", f, TRUE) :
                  f \in {g \in files : Covers(directory, g)}},
          nextWatcher |-> st.nextWatcher + 1]

\* the second loop of startWatching
RECURSIVE WatchAll(_, _)
WatchAll(directories, st) ==
    IF directories = <<>> THEN st
    ELSE WatchAll(Tail(directories), watchDirectory(Head(directories), st))

Registry == [watchers |-> watchers, pending |-> pending, nextWatcher |-> nextWatcher]

(***************************************************************************)
(* Handler table and event router.                                         *)
(***************************************************************************)
\* findHandler whose loop tests the directory before it tests for the end
\* of the walk, and so examines the directory at which the walk stops
RECURSIVE findHandlerExaminingLast(_, _)
findHandlerExaminingLast(currentDir, eventType) ==
    IF currentDir \in DOMAIN dirHandlers
       /\ eventType \in DOMAIN dirHandlers[currentDir]
    THEN {dirHandlers[currentDir][eventType]}
    ELSE IF currentDir = dirname(currentDir) THEN {}
    ELSE findHandlerExaminingLast(dirname(currentDir), eventType)

\* the directories the loop of findHandler examines when no handler ends
\* it early, in order: the loop runs while currentDir differs from its parent
RECURSIVE Walk(_)
Walk(currentDir) ==
    IF currentDir = dirname(currentDir) THEN <<>>
    ELSE <<currentDir>> \o Walk(dirname(currentDir))

\* findHandler: the set holding the callback found, {} for undefined
RECURSIVE findHandler(_, _)
findHandler(currentDir, eventType) ==
    IF currentDir = dirname(currentDir) THEN {}
    ELSE IF currentDir \in DOMAIN dirHandlers
            /\ eventType \in DOMAIN dirHandlers[currentDir]
         THEN {dirHandlers[currentDir][eventType]}
    ELSE findHandler(dirname(currentDir), eventType)

\* the third argument handleEvent passes on: path.relative(baseDir, filePath)
\* with a trailing separator-plus-filename removed, after baseDir and "/".
\* The pattern needs a separator before the filename, so a relative path of
\* one segment is left as it is.
RelativePath(filePath) ==
    LET rel == relative(baseDir, baseDir, filePath).segs
        stripped == IF Len(rel) >= 2 THEN SubSeq(rel, 1, Len(rel) - 1) ELSE rel
    IN  Abs(baseDir.segs \o stripped)

\* the filter without its size test: an empty set would drop every event
ExtensionDroppedWithoutSizeTest(extension) == extension \notin allowedExtensions

\* the extension filter of handleEvent (lines 96-98): TRUE when it returns
ExtensionDropped(extension) ==
    Cardinality(allowedExtensions) > 0 /\ extension \notin allowedExtensions

\* the initial-scan suppression of handleEvent (lines 100-102)
InitialDropped(eventType, filePath) ==
    filePath \in initialFiles /\ eventType = "add"

Dispatch(chan, eventType, directory, filename, relativePath, callback) ==
    [chan |-> chan, eventType |-> eventType, directory |-> directory,
     filename |-> filename, relativePath |-> relativePath, callback |-> callback]

\* handleEvent: the emission and the handler call it makes, in order
handleEvent(eventType, directory, filePath) ==
    LET filename == basename(filePath)
        extension == toLowerCase(extname(filename))
        relativePath == RelativePath(filePath)
    IN  IF ExtensionDropped(extension) THEN <<>>
        ELSE IF InitialDropped(eventType, filePath) THEN <<>>
        ELSE <<Dispatch("emit", eventType, directory, filename, relativePath, 0)>>
             \o [i \in 1..Cardinality(findHandler(directory, eventType)) |->
                    Dispatch("handler", eventType, directory, filename, relativePath,
                             CHOOSE h \in findHandler(directory, eventType) : TRUE)]

\* fs.existsSync
existsSync(p) ==
    resolve(baseDir, p) \in ExistingDirs \/ resolve(baseDir, p) \in files

\* captureInitialFiles(directory): the paths it adds, path.join(directory, ...)
\* of every file below directory
captureInitialFiles(directory) ==
    {join(directory, Rel(SubSeq(f.segs, Len(directory.segs) + 1, Len(f.segs)))) :
        f \in {g \in files : IsPrefix(directory.segs, g.segs)}}

\* the first loop with a snapshot that passes over a directory it cannot read
RECURSIVE CaptureAllSkippingMissing(_, _)
CaptureAllSkippingMissing(directories, acc) ==
    IF directories = <<>> THEN [initialFiles |-> acc, thrown |-> FALSE]
    ELSE IF Head(directories) \notin ExistingDirs
         THEN CaptureAllSkippingMissing(Tail(directories), acc)
    ELSE CaptureAllSkippingMissing(Tail(directories),
                                   acc \cup captureInitialFiles(Head(directories)))

\* the first loop of startWatching: readdirSync throws on a directory that
\* does not exist, which ends the loop and the call
RECURSIVE CaptureAll(_, _)
CaptureAll(directories, acc) ==
    IF directories = <<>> THEN [initialFiles |-> acc, thrown |-> FALSE]
    ELSE IF Head(directories) \notin ExistingDirs
         THEN [initialFiles |-> acc, thrown |-> TRUE]
    ELSE CaptureAll(Tail(directories), acc \cup captureInitialFiles(Head(directories)))

\* new Set(list): the list without its repeated elements, in first-seen order
RECURSIVE NewSet(_, _)
NewSet(list, acc) ==
    IF list = <<>> THEN acc
    ELSE IF Head(list) \in SeqRange(acc) THEN NewSet(Tail(list), acc)
    ELSE NewSet(Tail(list), Append(acc, Head(list)))

(***************************************************************************)
(* Initial state: the instance right after its constructor.                *)
(***************************************************************************)
\* the record of the latest step
\*   op      the operation ("new", an API name, "fs" or "deliver")
\*   args    the arguments of an API call
\*   thrown  whether the API call ended with an exception
\*   lost    the notifications that closing the watchers discarded
\*   note    <<the notification delivered>>
\*   ignored whether the ignored predicate told the watcher to drop it
\*   out     what handleEvent emitted and called for it
\*   warned  the directories the API call passed to console.warn
Step(op, args, thrown, lost, note, wasIgnored, out, warned) ==
    [op |-> op, args |-> args, thrown |-> thrown, lost |-> lost,
     note |-> note, ignored |-> wasIgnored, out |-> out, warned |-> warned]

\* the console.warn calls of ignoreDirectory (line 180) and of
\* unignoreDirectory (line 198); no other operation warns
Warned(op, args) ==
    CASE op = "ignoreDirectory" -> {dir \in SeqRange(args) : ~existsSync(dir)}
      [] op = "unignoreDirectory" ->
             {dir \in SeqRange(args) : dir \notin ignoredDirectories}
      [] OTHER -> {}

ApiStep(op, args, thrown, lost) ==
    Step(op, args, thrown, lost, <<>>, FALSE, <<>>, Warned(op, args))

Init ==
    /\ watchers = EmptyMap
    /\ dirHandlers = EmptyMap
    /\ ignoredDirectories = {}
    /\ allowedExtensions = {}
    /\ monitoredDirectories = <<>>
    /\ initialFiles = {}
    /\ nextWatcher = 1
    /\ files = FilesAtConstruction
    /\ pending = {}
    /\ apiCalls = 0
    /\ changes = 0
    /\ change = <<>>
    /\ quiet = TRUE
    /\ atStart = {}
    /\ log = {}
    /\ openedWith = EmptyMap
    /\ last = ApiStep("new", <<>>, FALSE, {})

\* what every API call does besides its own assignments: it leaves the
\* registry as st = [watchers, pending, nextWatcher] and is recorded
ApiCall(op, args, thrown, lost, st) ==
    /\ apiCalls < MaxApiCalls
    /\ apiCalls' = apiCalls + 1
    /\ watchers' = st.watchers
    /\ pending' = st.pending
    /\ nextWatcher' = st.nextWatcher
    /\ openedWith' = [w \in 1..(st.nextWatcher - 1) |->
                         IF w \in DOMAIN openedWith THEN openedWith[w]
                         ELSE ignoredDirectories]
    /\ quiet' = FALSE
    /\ last' = ApiStep(op, args, thrown, lost)
    /\ UNCHANGED <<files, changes, change, log>>

(***************************************************************************)
(* The public operations.                                                  *)
(***************************************************************************)
\* every setHandler call passes a closure of its own: the callback of the
\* n-th API call is n
NewCallback == apiCalls + 1

\* setHandler that stores a new Map for the directory at every call
setHandlerFreshMap(directory, eventType, callback) ==
    /\ ApiCall("setHandler", <<directory, eventType, callback>>, FALSE, {},
               watchDirectory(directory, Registry))
    /\ dirHandlers' = MapSet(dirHandlers, directory,
                             MapSet(EmptyMap, eventType, callback))
    /\ UNCHANGED <<ignoredDirectories, allowedExtensions, monitoredDirectories,
                   initialFiles, atStart>>

setHandler(directory, eventType, callback) ==
    LET handlers == IF directory \in DOMAIN dirHandlers
                    THEN dirHandlers[directory] ELSE EmptyMap
    IN  /\ ApiCall("setHandler", <<directory, eventType, callback>>, FALSE, {},
                   watchDirectory(directory, Registry))
        /\ dirHandlers' = MapSet(dirHandlers, directory,
                                 MapSet(handlers, eventType, callback))
        /\ UNCHANGED <<ignoredDirectories, allowedExtensions, monitoredDirectories,
                       initialFiles, atStart>>

\* startWatching with its two loops in the other order: the Subscriptions
\* are opened before the snapshots are taken
startWatchingOpeningFirst ==
    LET directories == IF Len(monitoredDirectories) > 0
                       THEN monitoredDirectories ELSE <<baseDir>>
        captured == CaptureAll(directories, initialFiles)
    IN  /\ ApiCall("startWatching", <<>>, captured.thrown, {},
                   WatchAll(directories, Registry))
        /\ initialFiles' = captured.initialFiles
        /\ atStart' = files
        /\ UNCHANGED <<dirHandlers, ignoredDirectories, allowedExtensions,
                       monitoredDirectories>>

\* startWatching that takes its snapshot into an emptied initial file set
startWatchingResettingSnapshot ==
    LET directories == IF Len(monitoredDirectories) > 0
                       THEN monitoredDirectories ELSE <<baseDir>>
        captured == CaptureAll(directories, {})
    IN  /\ ApiCall("startWatching", <<>>, captured.thrown, {},
                   IF captured.thrown THEN Registry
                   ELSE WatchAll(directories, Registry))
        /\ initialFiles' = captured.initialFiles
        /\ atStart' = files
        /\ UNCHANGED <<dirHandlers, ignoredDirectories, allowedExtensions,
                       monitoredDirectories>>

startWatching ==
    LET directories == IF Len(monitoredDirectories) > 0
                       THEN monitoredDirectories ELSE <<baseDir>>
        captured == CaptureAll(directories, initialFiles)
    IN  /\ ApiCall("startWatching", <<>>, captured.thrown, {},
                   IF captured.thrown THEN Registry
                   ELSE WatchAll(directories, Registry))
        /\ initialFiles' = captured.initialFiles
        /\ atStart' = files
        /\ UNCHANGED <<dirHandlers, ignoredDirectories, allowedExtensions,
                       monitoredDirectories>>

\* stopWatching that clears the map and forgets to close the watchers
ClosedByStopNone == {}

\* the watchers the first loop of stopWatching closes
ClosedByStop == Range(watchers)

\* stopWatching that also clears the handler table
stopWatchingClearingHandlers ==
    /\ ApiCall("stopWatching", <<>>, FALSE,
               {n \in pending : n.watcher \in ClosedByStop},
               [watchers |-> EmptyMap,
                pending |-> {n \in pending : n.watcher \notin ClosedByStop},
                nextWatcher |-> nextWatcher])
    /\ dirHandlers' = EmptyMap
    /\ UNCHANGED <<ignoredDirectories, allowedExtensions,
                   monitoredDirectories, initialFiles, atStart>>

\* stopWatching that closes the watchers and forgets to clear the map
stopWatchingKeepingMap ==
    /\ ApiCall("stopWatching", <<>>, FALSE,
               {n \in pending : n.watcher \in ClosedByStop},
               [watchers |-> watchers,
                pending |-> {n \in pending : n.watcher \notin ClosedByStop},
                nextWatcher |-> nextWatcher])
    /\ UNCHANGED <<dirHandlers, ignoredDirectories, allowedExtensions,
                   monitoredDirectories, initialFiles, atStart>>

stopWatching ==
    /\ ApiCall("stopWatching", <<>>, FALSE,
               {n \in pending : n.watcher \in ClosedByStop},
               [watchers |-> EmptyMap,
                pending |-> {n \in pending : n.watcher \notin ClosedByStop},
                nextWatcher |-> nextWatcher])
    /\ UNCHANGED <<dirHandlers, ignoredDirectories, allowedExtensions,
                   monitoredDirectories, initialFiles, atStart>>

\* ignoreDirectory that records a directory whether or not it exists
ignoreDirectoryRecordingMissing(directory) ==
    /\ ApiCall("ignoreDirectory", directory, FALSE, {}, Registry)
    /\ ignoredDirectories' = ignoredDirectories \cup SeqRange(directory)
    /\ UNCHANGED <<dirHandlers, allowedExtensions, monitoredDirectories,
                   initialFiles, atStart>>

ignoreDirectory(directory) ==
    /\ ApiCall("ignoreDirectory", directory, FALSE, {}, Registry)
    /\ ignoredDirectories' =
           ignoredDirectories \cup {dir \in SeqRange(directory) : existsSync(dir)}
    /\ UNCHANGED <<dirHandlers, allowedExtensions, monitoredDirectories,
                   initialFiles, atStart>>

unignoreDirectory(directory) ==
    /\ ApiCall("unignoreDirectory", directory, FALSE, {}, Registry)
    /\ ignoredDirectories' = ignoredDirectories \ SeqRange(directory)
    /\ UNCHANGED <<dirHandlers, allowedExtensions, monitoredDirectories,
                   initialFiles, atStart>>

setAllowedExtensions(extensions) ==
    /\ ApiCall("setAllowedExtensions", extensions, FALSE, {}, Registry)
    /\ allowedExtensions' = {toLowerCase(ext) : ext \in SeqRange(extensions)}
    /\ UNCHANGED <<dirHandlers, ignoredDirectories, monitoredDirectories,
                   initialFiles, atStart>>

setMonitoredDirectories(directories) ==
    /\ ApiCall("setMonitoredDirectories", directories, FALSE, {}, Registry)
    /\ monitoredDirectories' =
           NewSet([i \in 1..Len(directories) |-> resolve(baseDir, directories[i])], <<>>)
    /\ UNCHANGED <<dirHandlers, ignoredDirectories, allowedExtensions,
                   initialFiles, atStart>>

(***************************************************************************)
(* The environment: the file system changes, and a watcher emits one of    *)
(* its raw notifications, which runs the listener watchDirectory installed.*)
(***************************************************************************)
\* a file is created, modified or deleted while the watchers are idle
FsChange(eventType, file) ==
    /\ changes < MaxChanges
    /\ pending = {}
    /\ IF eventType = "add" THEN file \notin files ELSE file \in files
    /\ files' = CASE eventType = "add" -> files \cup {file}
                  [] eventType = "unlink" -> files \ {file}
                  [] OTHER -> files
    /\ pending' = {Notification(watchers[d], d, eventType, file, FALSE) :
                      d \in {k \in DOMAIN watchers : Covers(k, file)}}
    /\ changes' = changes + 1
    /\ change' = <<[eventType |-> eventType, file |-> file]>>
    /\ quiet' = TRUE
    /\ log' = {}
    /\ atStart' = IF eventType = "unlink" THEN atStart \ {file} ELSE atStart
    /\ last' = ApiStep("fs", <<eventType, file>>, FALSE, {})
    /\ UNCHANGED <<watchers, dirHandlers, ignoredDirectories, allowedExtensions,
                   monitoredDirectories, initialFiles, nextWatcher, apiCalls,
                   openedWith>>

\* watcher n.watcher gets to the candidate path of n: it asks the ignored
\* predicate and, unless told to ignore, emits the event to handleEvent
Deliver(n) ==
    LET filePath == EventPath(n.directory, n.file)
        out == IF ignored(filePath) THEN <<>>
               ELSE handleEvent(n.eventType, n.directory, filePath)
    IN  /\ n \in pending
        /\ pending' = pending \ {n}
        /\ log' = log \cup {[watcher |-> n.watcher, dispatch |-> out[i]] :
                               i \in 1..Len(out)}
        /\ last' = Step("deliver", <<>>, FALSE, {}, <<n>>, ignored(filePath), out, {})
        /\ UNCHANGED <<watchers, dirHandlers, ignoredDirectories, allowedExtensions,
                       monitoredDirectories, initialFiles, nextWatcher, files,
                       apiCalls, changes, change, quiet, atStart, openedWith>>

Next ==
    \/ \E directory \in HandlerDirs, eventType \in EventTypes :
           setHandler(directory, eventType, NewCallback)
    \/ startWatching
    \/ stopWatching
    \/ \E directory \in IgnoreArgs : ignoreDirectory(directory)
    \/ \E directory \in IgnoreArgs : unignoreDirectory(directory)
    \/ \E extensions \in ExtensionArgs : setAllowedExtensions(extensions)
    \/ \E directories \in MonitoredArgs : setMonitoredDirectories(directories)
    \/ \E eventType \in EventTypes, file \in AllFiles : FsChange(eventType, file)
    \/ \E n \in pending : Deliver(n)

Spec == Init /\ [][Next]_vars

(***************************************************************************)
(* Callbacks that raise.  Under Spec every listener and handler returns    *)
(* normally.  Here one of the two callbacks handleEvent runs may raise: a  *)
(* generic listener, inside this.emit (line 104), or the handler (line     *)
(* 107).  handleEvent has no try around either, so the exception ends it   *)
(* at the call that raised and goes on to the watcher that emitted the     *)
(* notification.  What the watcher library and the runtime do with it is   *)
(* theirs to decide; the model takes the outcome in which the engine runs  *)
(* on.                                                                     *)
(***************************************************************************)
Raisers == {"listener", "handler"}

\* handleEvent when raiser raises: what it emitted and called before the
\* exception left it, and whether one did
handleEventRaising(eventType, directory, filePath, raiser) ==
    LET out == handleEvent(eventType, directory, filePath)
    IN  IF out = <<>> THEN [out |-> out, thrown |-> FALSE]
        ELSE IF raiser = "listener" THEN [out |-> <<out[1]>>, thrown |-> TRUE]
        ELSE [out |-> out, thrown |-> Len(out) = 2]

DeliverRaising(n, raiser) ==
    LET filePath == EventPath(n.directory, n.file)
        run == handleEventRaising(n.eventType, n.directory, filePath, raiser)
    IN  /\ n \in pending
        /\ ~ignored(filePath)
        /\ run.thrown
        /\ pending' = pending \ {n}
        /\ log' = log \cup {[watcher |-> n.watcher, dispatch |-> run.out[i]] :
                               i \in 1..Len(run.out)}
        /\ last' = Step("deliver", <<raiser>>, TRUE, {}, <<n>>, FALSE, run.out, {})
        /\ UNCHANGED <<watchers, dirHandlers, ignoredDirectories, allowedExtensions,
                       monitoredDirectories, initialFiles, nextWatcher, files,
                       apiCalls, changes, change, quiet, atStart, openedWith>>

NextRaising ==
    \/ Next
    \/ \E n \in pending, raiser \in Raisers : DeliverRaising(n, raiser)

SpecRaising == Init /\ [][NextRaising]_vars

(***************************************************************************)
(* The instance after setHandler calls made right after construction, and  *)
(* findHandler applied to a directory string on the table they leave.      *)
(***************************************************************************)
\* the instance after new FileWatcher() and the setHandler calls of calls, a
\* sequence of <<directory, eventType>>, from call i on; these calls come
\* before the ones apiCalls counts, and the callback of the i-th is -i
RECURSIVE AfterSetHandlers(_, _, _)
AfterSetHandlers(calls, i, st) ==
    IF i > Len(calls) THEN st
    ELSE LET directory == calls[i][1]
             eventType == calls[i][2]
             handlers == IF directory \in DOMAIN st.dirHandlers
                         THEN st.dirHandlers[directory] ELSE EmptyMap
             reg == watchDirectory(directory,
                                   [watchers |-> st.watchers, pending |-> st.pending,
                                    nextWatcher |-> st.nextWatcher])
         IN  AfterSetHandlers(calls, i + 1,
                 [dirHandlers |-> MapSet(st.dirHandlers, directory,
                                         MapSet(handlers, eventType, 0 - i)),
                  watchers |-> reg.watchers, pending |-> reg.pending,
                  nextWatcher |-> reg.nextWatcher])

InitAfter(calls) ==
    /\ files = FilesAtConstruction
    /\ LET st == AfterSetHandlers(calls, 1,
                     [dirHandlers |-> EmptyMap, watchers |-> EmptyMap,
                      pending |-> {}, nextWatcher |-> 1])
       IN  /\ watchers = st.watchers
           /\ dirHandlers = st.dirHandlers
           /\ pending = st.pending
           /\ nextWatcher = st.nextWatcher
           /\ openedWith = [w \in 1..(st.nextWatcher - 1) |-> {}]
    /\ ignoredDirectories = {}
    /\ allowedExtensions = {}
    /\ monitoredDirectories = <<>>
    /\ initialFiles = {}
    /\ apiCalls = 0
    /\ changes = 0
    /\ change = <<>>
    /\ quiet = (calls = <<>>)
    /\ atStart = {}
    /\ log = {}
    /\ last = IF calls = <<>> THEN ApiStep("new", <<>>, FALSE, {})
              ELSE ApiStep("setHandler",
                           <<calls[Len(calls)][1], calls[Len(calls)][2], 0 - Len(calls)>>,
                           FALSE, {})

\* the setHandler calls made before findHandler is applied: up to two, on
\* ".", the base directory, /w/a and /w/a/b
WalkHandlers == {Rel(<<Dot>>), Cwd, DirA, DirAB} \X {"add", "change"}

WalkSetups == {<<>>} \cup {<<a>> : a \in WalkHandlers}
                    \cup {<<a, b>> : a \in WalkHandlers, b \in WalkHandlers}

\* directory strings: "/", ".", "a", "./a", "a/b", "./a/b" and absolute ones
WalkInputs ==
    {Abs(<<>>), Rel(<<Dot>>), Rel(<<NameA>>), Rel(<<Dot, NameA>>),
     Rel(<<NameA, NameB>>), Rel(<<Dot, NameA, NameB>>), Cwd, DirA, DirAB, DirC, DirZ}

InitWalk == \E calls \in WalkSetups : InitAfter(calls)

\* findHandler(currentDir, eventType) is applied and returns
findHandlerCalled(currentDir, eventType) ==
    /\ last' = Step("findHandler", <<currentDir, eventType>>, FALSE, {}, <<>>, FALSE,
                    [i \in 1..Cardinality(findHandler(currentDir, eventType)) |->
                        CHOOSE h \in findHandler(currentDir, eventType) : TRUE], {})
    /\ UNCHANGED <<watchers, dirHandlers, ignoredDirectories, allowedExtensions,
                   monitoredDirectories, initialFiles, nextWatcher, files, pending,
                   apiCalls, changes, change, quiet, atStart, openedWith, log>>

NextWalk ==
    \E currentDir \in WalkInputs, eventType \in EventTypes :
        findHandlerCalled(currentDir, eventType)

SpecWalk == InitWalk /\ [][NextWalk]_vars

(***************************************************************************)
(* The engine from the state setHandler('/w/a/b', 'change', cb) leaves     *)
(* right after construction: /w/a/b has a handler and a Subscription and   *)
(* is in no set of monitored directories the caller passes.  The ignore    *)
(* set and the extension filter stay empty.                                *)
(***************************************************************************)
InitRestart == InitAfter(<<<<DirAB, "change">>>>)

\* the operations that open and close Subscriptions or choose the monitored
\* directories, and the environment
NextRestart ==
    \/ \E directory \in HandlerDirs, eventType \in EventTypes :
           setHandler(directory, eventType, NewCallback)
    \/ startWatching
    \/ stopWatching
    \/ \E directories \in MonitoredArgs : setMonitoredDirectories(directories)
    \/ \E eventType \in EventTypes, file \in AllFiles : FsChange(eventType, file)
    \/ \E n \in pending : Deliver(n)

SpecRestart == InitRestart /\ [][NextRestart]_vars

(***************************************************************************)
(* Vocabulary of the properties.                                           *)
(***************************************************************************)
Delivered == last.op = "deliver"

\* the notification the latest step delivered, and the path it reported
Note == last.note[1]

NotePath == EventPath(Note.directory, Note.file)

\* the latest file system change has been reported by every watcher that
\* saw it, and no API call was made meanwhile
Settled == change # <<>> /\ quiet /\ pending = {}

Changed == change[1]

\* what the handlers, resp. the listeners, received since the latest change
HandlerCalls == {e \in log : e.dispatch.chan = "handler"}

Emissions == {e \in log : e.dispatch.chan = "emit"}

\* the directories with a handler for eventType whose subtree holds file
HandlerDirsAbove(eventType, file) ==
    {d \in DOMAIN dirHandlers :
        eventType \in DOMAIN dirHandlers[d] /\ Covers(d, file)}

\* whether an extension filter in force lets the file through
ExtensionAllowed(file) ==
    allowedExtensions = {} \/ toLowerCase(extname(basename(file))) \in allowedExtensions

(***************************************************************************)
(* C1. Nearest-ancestor handler resolution: when directories holding the   *)
(* changed file have handlers for the kind of the change, the only handler *)
(* invoked for the change is the one of the nearest such directory.        *)
(* The code resolves the handler from the watched directory of each        *)
(* Subscription, not from the file, and setHandler gives every directory   *)
(* with a handler a Subscription of its own: handlers on /w/a and /w/a/b   *)
(* are both invoked for a change below /w/a/b.                             *)
(***************************************************************************)
C1_OnlyNearestHandlerInvoked ==
    Settled =>
        \A e \in HandlerCalls :
            \A d \in HandlerDirsAbove(Changed.eventType, Changed.file) :
                (\A o \in HandlerDirsAbove(Changed.eventType, Changed.file) :
                    Len(resolve(baseDir, o).segs) <= Len(resolve(baseDir, d).segs))
                => e.dispatch.callback = dirHandlers[d][Changed.eventType]

(***************************************************************************)
(* C2. Exactly-once dispatch: a handler registered for kind K on directory *)
(* D is invoked exactly once for a change of kind K to a file directly in  *)
(* D that passes the extension filter, with the file's name and the path   *)
(* of the containing directory.  Stated for a directory whose Subscription *)
(* is live, an empty ignore set and an empty initial file set, so that     *)
(* what refutes it is the dispatch itself: a handler on "." is never       *)
(* invoked, because findHandler                                            *)
(* does not examine the directory at which its walk stops, and for a file  *)
(* directly in the base directory the path passed is the file's own.       *)
(***************************************************************************)
C2_HandlerInvokedExactlyOnce ==
    Settled /\ ignoredDirectories = {} /\ initialFiles = {}
            /\ ExtensionAllowed(Changed.file) =>
        \A d \in DOMAIN dirHandlers :
            (Changed.eventType \in DOMAIN dirHandlers[d]
             /\ d \in DOMAIN watchers
             /\ resolve(baseDir, d) = dirname(Changed.file)) =>
                LET mine == {e \in HandlerCalls :
                                e.dispatch.callback = dirHandlers[d][Changed.eventType]}
                IN  /\ Cardinality(mine) = 1
                    /\ \A e \in mine :
                          /\ e.dispatch.filename = basename(Changed.file)
                          /\ e.dispatch.relativePath = dirname(Changed.file)

(***************************************************************************)
(* C3. Extension filter: a notification the watcher emits is dropped by    *)
(* the filter (no emission, no handler call) exactly when the allowed set  *)
(* is non-empty and lacks the file's lowercased extension; otherwise only  *)
(* the initial-scan suppression can drop it.  The allowed set is the one   *)
(* the latest setAllowedExtensions call gave, lowercased, and nothing else *)
(* changes it.                                                             *)
(***************************************************************************)
C3_FilterDecides ==
    (Delivered /\ ~last.ignored) =>
        LET extension == toLowerCase(extname(basename(NotePath)))
        IN  /\ (allowedExtensions # {} /\ extension \notin allowedExtensions)
                => last.out = <<>>
            /\ (allowedExtensions = {} \/ extension \in allowedExtensions)
                => (last.out = <<>>
                    <=> (Note.eventType = "add" /\ NotePath \in initialFiles))

C3_SetByLatestCall ==
    IF last'.op = "setAllowedExtensions"
    THEN allowedExtensions' = {toLowerCase(last'.args[i]) : i \in 1..Len(last'.args)}
    ELSE UNCHANGED allowedExtensions

C3_ExtensionFilter == [](C3_FilterDecides) /\ [][C3_SetByLatestCall]_vars

\* the filter drops a notification whose extension, in upper case on disk,
\* is not in the allowed set
C3_Witness ==
    /\ Delivered /\ ~last.ignored
    /\ allowedExtensions = {<<".", "j", "s">>}
    /\ extname(basename(NotePath)) = <<".", "T", "S">>
    /\ last.out = <<>>

(***************************************************************************)
(* C4. Initial-scan suppression: when a Subscription starts and reports as *)
(* "add" a file that was on disk when startWatching was called, nothing is *)
(* emitted and no handler is called, for every Subscription.  The code     *)
(* compares the path a Subscription reports with the absolute paths of the *)
(* snapshot: a Subscription setHandler opened for "." reports "a/b/f.js",  *)
(* which the snapshot does not hold, and one opened for a directory that   *)
(* is not monitored reports files that were never captured.                *)
(***************************************************************************)
C4_NoAddForFilesPresentAtStart ==
    (Delivered /\ ~last.ignored /\ Note.initial /\ Note.eventType = "add"
        /\ Note.file \in atStart)
    => last.out = <<>>

(***************************************************************************)
(* C5. Genuine adds surface exactly once: a file created after a           *)
(* startWatching call has taken its snapshot, with an allowed extension,   *)
(* nothing being ignored, under a watched directory, produces exactly one  *)
(* "add" emission.  The code emits once per Subscription that covers the   *)
(* file, and drops the add of a file whose path is in the initial file set.*)
(***************************************************************************)
C5_OneAddEmission ==
    (Settled /\ Changed.eventType = "add" /\ initialFiles # {}
        /\ ignoredDirectories = {} /\ ExtensionAllowed(Changed.file)
        /\ \E d \in DOMAIN watchers : Covers(d, Changed.file))
    => Cardinality({e \in Emissions : e.dispatch.eventType = "add"}) = 1

(***************************************************************************)
(* C6. Ignore correctness: for a Subscription created while the ignore set *)
(* held a directory that it still holds, a change to a file that lies      *)
(* under no ignored directory is still emitted.  The ignored predicate of  *)
(* the code tests a non-empty string, so a non-empty ignore set makes      *)
(* every watcher drop every path.                                          *)
(***************************************************************************)
C6_OnlyIgnoredDirectoriesAreSilent ==
    (Delivered /\ ~Note.initial
        /\ openedWith[Note.watcher] \cap ignoredDirectories # {}
        /\ (\A i \in ignoredDirectories : ~Covers(i, Note.file))
        /\ ExtensionAllowed(Note.file)
        /\ NotePath \notin initialFiles)
    => (~last.ignored /\ last.out # <<>>)

(***************************************************************************)
(* C7. Single subscription per directory: no two live Subscriptions watch  *)
(* the same directory, however it is spelled.  The registry is keyed by    *)
(* the string as given: "." from setHandler and "/w" from startWatching    *)
(* are two keys, hence two Subscriptions of the working directory.         *)
(***************************************************************************)
C7_OneSubscriptionPerDirectory ==
    \A d1 \in DOMAIN watchers, d2 \in DOMAIN watchers :
        resolve(baseDir, d1) = resolve(baseDir, d2) => d1 = d2

(***************************************************************************)
(* C8. setHandler resolves its directory: every key of the handler table   *)
(* and of the watch registry is an absolute path.  The code stores the     *)
(* string it was given.                                                    *)
(***************************************************************************)
C8_KeysAreAbsolute ==
    \A d \in DOMAIN dirHandlers \cup DOMAIN watchers : d = resolve(baseDir, d)

(***************************************************************************)
(* C9. stopWatching closes every Subscription and empties the registry;    *)
(* the notifications of the closed Subscriptions are never processed, so   *)
(* every notification in flight or delivered belongs to a Subscription     *)
(* that is live; with an empty registry the call changes no state.         *)
(***************************************************************************)
C9_InFlightBelongsToLive ==
    /\ \A n \in pending : n.watcher \in Range(watchers)
    /\ Delivered => Note.watcher \in Range(watchers)

C9_StopStep ==
    last'.op = "stopWatching" =>
        /\ watchers' = EmptyMap
        /\ pending' = {}
        /\ last'.lost = pending
        /\ watchers = EmptyMap =>
              UNCHANGED <<watchers, dirHandlers, ignoredDirectories,
                          allowedExtensions, monitoredDirectories, initialFiles,
                          nextWatcher, files, pending>>

C9_StopSilences == [](C9_InFlightBelongsToLive) /\ [][C9_StopStep]_vars

\* stopWatching discarded a notification that a Subscription had not emitted
C9_Witness == last.op = "stopWatching" /\ last.lost # {} /\ watchers = EmptyMap

(***************************************************************************)
(* C10. stopWatching changes only the watch registry: the handler table,   *)
(* the ignore set, the allowed extensions and the monitored directories    *)
(* are the same after the call as before it.                               *)
(***************************************************************************)
C10_StopKeepsConfiguration ==
    [][last'.op = "stopWatching" =>
          UNCHANGED <<dirHandlers, ignoredDirectories, allowedExtensions,
                      monitoredDirectories>>]_vars

\* stopWatching was called with handlers registered and a Subscription live
C10_Witness ==
    /\ last.op = "stopWatching"
    /\ last.lost # {}
    /\ dirHandlers # EmptyMap

(***************************************************************************)
(* C11. Snapshot barrier: startWatching works on the monitored directories,*)
(* or on the base directory alone when none is set.  When the call returns *)
(* normally every one of these directories has a Subscription, the call    *)
(* opened Subscriptions for no other directory, and the snapshot of every  *)
(* one of them was taken before the first Subscription was opened: the     *)
(* files below them are in the initial file set, and so is the path of     *)
(* every notification the new Subscriptions start with.  When a snapshot   *)
(* fails, no Subscription has been opened yet.                             *)
(***************************************************************************)
EffectiveDirectories ==
    IF monitoredDirectories # <<>> THEN SeqRange(monitoredDirectories) ELSE {baseDir}

C11_SnapshotBarrier ==
    [][last'.op = "startWatching" =>
          /\ last'.thrown => watchers' = watchers /\ pending' = pending
          /\ ~last'.thrown =>
                /\ DOMAIN watchers' = DOMAIN watchers \cup EffectiveDirectories
                /\ \A d \in EffectiveDirectories :
                      {f \in files : Covers(d, f)} \subseteq initialFiles'
                /\ \A n \in pending' \ pending :
                      /\ n.directory \in EffectiveDirectories
                      /\ EventPath(n.directory, n.file) \in initialFiles']_vars

\* startWatching returned normally on two monitored directories, one of
\* them with a file below it
C11_Witness ==
    /\ last.op = "startWatching"
    /\ ~last.thrown
    /\ Len(monitoredDirectories) = 2
    /\ SeqRange(monitoredDirectories) \subseteq DOMAIN watchers
    /\ initialFiles # {}
    /\ pending # {}

(***************************************************************************)
(* C12. Snapshot failure aborts startup: when one of the directories       *)
(* startWatching works on does not exist, the call ends with an error and  *)
(* opens no Subscription: the registry and the notifications in flight are *)
(* as they were before the call.                                           *)
(***************************************************************************)
C12_FailedSnapshotOpensNothing ==
    [][(last'.op = "startWatching"
        /\ \E d \in EffectiveDirectories : d \notin ExistingDirs) =>
          /\ last'.thrown
          /\ watchers' = watchers
          /\ nextWatcher' = nextWatcher
          /\ pending' = pending
          /\ \A d \in EffectiveDirectories \ DOMAIN watchers :
                d \notin DOMAIN watchers']_vars

\* startWatching failed on the monitored directory /w/z, which does not exist
C12_Witness ==
    /\ last.op = "startWatching"
    /\ last.thrown
    /\ DirZ \in SeqRange(monitoredDirectories)
    /\ DirZ \notin DOMAIN watchers

(***************************************************************************)
(* C13. Callback failure isolation: an error a listener or a handler       *)
(* raises during dispatch is contained by the router, so no delivery ends  *)
(* with the error leaving handleEvent.  The code calls emit and the        *)
(* handler without a try: the error of either leaves handleEvent and       *)
(* reaches the watcher that emitted the notification.                      *)
(***************************************************************************)
C13_NoErrorLeavesTheRouter == Delivered => ~last.thrown

(***************************************************************************)
(* C14. Two independent channels: for every notification that passes the   *)
(* extension filter and the initial-scan suppression the generic event is  *)
(* emitted and, when findHandler finds a handler, that handler is invoked, *)
(* each with the kind, the watched directory and the file name; the        *)
(* handler runs whether or not the listeners succeed.  In the code the     *)
(* handler call follows emit in the same unguarded sequence: a listener    *)
(* that raises keeps the handler from running.                             *)
(***************************************************************************)
C14_BothChannelsServed ==
    (/\ Delivered
     /\ ~last.ignored
     /\ ~ExtensionDropped(toLowerCase(extname(basename(NotePath))))
     /\ ~InitialDropped(Note.eventType, NotePath)) =>
        /\ \E i \in 1..Len(last.out) :
              /\ last.out[i].chan = "emit"
              /\ last.out[i].eventType = Note.eventType
              /\ last.out[i].directory = Note.directory
              /\ last.out[i].filename = basename(NotePath)
        /\ \A h \in findHandler(Note.directory, Note.eventType) :
              \E i \in 1..Len(last.out) :
                  /\ last.out[i].chan = "handler"
                  /\ last.out[i].callback = h
                  /\ last.out[i].eventType = Note.eventType
                  /\ last.out[i].directory = Note.directory
                  /\ last.out[i].filename = basename(NotePath)

(***************************************************************************)
(* C15. Handler overwrite: the handler table holds at most one callback    *)
(* per directory and kind.  A setHandler call stores its callback for its  *)
(* pair, replacing the one stored before, and leaves the callback of every *)
(* other pair as it was; no other step changes the table.                  *)
(***************************************************************************)
HandlerPairs(table) ==
    {p \in (DOMAIN table) \X EventTypes : p[2] \in DOMAIN table[p[1]]}

C15_HandlerOverwrite ==
    [][IF last'.op = "setHandler"
       THEN LET pair == <<last'.args[1], last'.args[2]>>
            IN  /\ HandlerPairs(dirHandlers') = HandlerPairs(dirHandlers) \cup {pair}
                /\ dirHandlers'[pair[1]][pair[2]] = last'.args[3]
                /\ \A o \in HandlerPairs(dirHandlers) \ {pair} :
                      dirHandlers'[o[1]][o[2]] = dirHandlers[o[1]][o[2]]
       ELSE dirHandlers' = dirHandlers]_vars

\* the second setHandler call replaced a callback that had been invoked, and
\* left the callback of another pair, or none, in place
C15_Witness ==
    /\ last.op = "setHandler"
    /\ \E e \in HandlerCalls :
          /\ e.dispatch.callback = 1
          /\ dirHandlers[e.dispatch.directory][e.dispatch.eventType] = 2

(***************************************************************************)
(* C16. Lenient ignore configuration, as first stated: after               *)
(* ignoreDirectory every directory it was given is in the ignore set,      *)
(* also one that does not exist.  The code warns about a directory that    *)
(* does not exist and does not record it.                                  *)
(***************************************************************************)
C16_MissingDirectoryStillRecorded ==
    last.op = "ignoreDirectory" => SeqRange(last.args) \subseteq ignoredDirectories

(***************************************************************************)
(* C16, amended.  ignoreDirectory warns about each directory that does not *)
(* exist and records exactly the ones that exist; unignoreDirectory warns  *)
(* about each directory that is not in the ignore set and removes exactly  *)
(* the ones that are; either call goes through all its arguments and       *)
(* returns without an error.                                               *)
(***************************************************************************)
C16_IgnoreConfiguration ==
    [][/\ last'.op = "ignoreDirectory" =>
             /\ ~last'.thrown
             /\ last'.warned = SeqRange(last'.args) \ (ExistingDirs \cup files)
             /\ ignoredDirectories' =
                    ignoredDirectories \cup (SeqRange(last'.args) \ last'.warned)
       /\ last'.op = "unignoreDirectory" =>
             /\ ~last'.thrown
             /\ last'.warned = SeqRange(last'.args) \ ignoredDirectories
             /\ ignoredDirectories' = ignoredDirectories \ SeqRange(last'.args)]_vars

\* ignoreDirectory('/w/z', '/w/a/b') warned about /w/z, which does not
\* exist, left it out and went on to record /w/a/b
C16_Witness ==
    /\ last.op = "ignoreDirectory"
    /\ last.warned = {DirZ}
    /\ DirZ \notin ignoredDirectories
    /\ DirAB \in ignoredDirectories

(***************************************************************************)
(* C17. relativePath: the path every listener and handler receives is the  *)
(* absolute path of the directory that holds the file, never the path of   *)
(* the file itself.  The code removes the file name from the relative path *)
(* only where a separator precedes it: for a file directly in the base     *)
(* directory the relative path is the bare name, nothing is removed, and   *)
(* the callbacks receive the path of the file.                             *)
(***************************************************************************)
C17_RelativePathIsContainingDirectory ==
    Delivered =>
        \A i \in 1..Len(last.out) :
            /\ last.out[i].relativePath = dirname(resolve(baseDir, NotePath))
            /\ last.out[i].relativePath # resolve(baseDir, NotePath)

(***************************************************************************)
(* C18. findHandler terminates for every directory string.  Its walk goes  *)
(* from the directory through its ancestors, each one name shorter than    *)
(* the one before, and stops at the directory that is its own parent, "/"  *)
(* or ".": it examines the directory and each of its proper prefixes once, *)
(* never the directory at which it stops, and the result is the handler of *)
(* the first examined directory that has one for the kind, or none.        *)
(***************************************************************************)
\* the names in a path: its segments other than "."
Names(p) == Cardinality({i \in 1..Len(p.segs) : p.segs[i] # Dot})

\* d and its prefixes, longest first, without "/" and "."
PrefixChain(d) ==
    LET all == [i \in 1..Len(d.segs) |->
                   [abs |-> d.abs, segs |-> SubSeq(d.segs, 1, Len(d.segs) + 1 - i)]]
    IN  IF all # <<>> /\ all[Len(all)] = Rel(<<Dot>>)
        THEN SubSeq(all, 1, Len(all) - 1) ELSE all

\* the places in the chain of d of the directories with a handler for eventType
Hits(d, eventType) ==
    {i \in 1..Len(PrefixChain(d)) :
        /\ PrefixChain(d)[i] \in DOMAIN dirHandlers
        /\ eventType \in DOMAIN dirHandlers[PrefixChain(d)[i]]}

\* the callback of the first directory in the chain of d that has one
Nearest(d, eventType) ==
    {dirHandlers[PrefixChain(d)[i]][eventType] :
        i \in {j \in Hits(d, eventType) : \A o \in Hits(d, eventType) : j <= o}}

C18_AncestorWalk ==
    \A d \in WalkInputs :
        /\ Walk(d) = PrefixChain(d)
        /\ \A i \in 1..Len(Walk(d)) :
              /\ Names(dirname(Walk(d)[i])) < Names(Walk(d)[i])
              /\ dirname(Walk(d)[i]) # Walk(d)[i]
        /\ \A eventType \in EventTypes : findHandler(d, eventType) = Nearest(d, eventType)
        /\ (last.op = "findHandler" /\ last.args[1] = d) =>
              /\ SeqRange(last.out) = Nearest(d, last.args[2])
              /\ Len(last.out) = Cardinality(Nearest(d, last.args[2]))

\* with handlers on "." and on /w/a, the walk from /w/a/b finds the one of
\* /w/a and the walk from ./a, which stops at ".", finds none
C18_Witness ==
    /\ last.op = "findHandler"
    /\ last.args = <<DirAB, "change">>
    /\ Rel(<<Dot>>) \in DOMAIN dirHandlers
    /\ "change" \in DOMAIN dirHandlers[Rel(<<Dot>>)]
    /\ DirA \in DOMAIN dirHandlers
    /\ "change" \in DOMAIN dirHandlers[DirA]
    /\ DirAB \notin DOMAIN dirHandlers
    /\ last.out = <<dirHandlers[DirA]["change"]>>
    /\ findHandler(Rel(<<Dot, NameA>>), "change") = {}

(***************************************************************************)
(* C19. The initial file set only grows.  No step removes a path from it,  *)
(* not the delivery of an "unlink" and not stopWatching; only startWatching*)
(* adds to it, and every startWatching call that returns has taken the     *)
(* snapshot of every directory it works on.  An "add" notification for a   *)
(* path in the set is dropped: nothing is emitted and no handler is        *)
(* called.                                                                 *)
(***************************************************************************)
C19_Grows ==
    /\ initialFiles \subseteq initialFiles'
    /\ initialFiles' # initialFiles => last'.op = "startWatching"
    /\ (last'.op = "startWatching" /\ ~last'.thrown) =>
          \A d \in EffectiveDirectories : captureInitialFiles(d) \subseteq initialFiles'

C19_AddDropped ==
    (Delivered /\ Note.eventType = "add" /\ NotePath \in initialFiles) =>
        last.out = <<>>

C19_InitialFilesOnlyGrow == [](C19_AddDropped) /\ [][C19_Grows]_vars

\* the deletion of a file of the snapshot was dispatched and its path is
\* still in the initial file set
C19_Witness ==
    /\ Delivered
    /\ Note.eventType = "unlink"
    /\ last.out # <<>>
    /\ NotePath \in initialFiles
    /\ Note.file \notin files

(***************************************************************************)
(* C20. Restart coverage: when startWatching follows stopWatching and      *)
(* returns, the directories with a live Subscription are exactly the       *)
(* monitored directories, or the base directory when none is set.  A       *)
(* directory that has handlers and is not among them has no Subscription   *)
(* and no notification of its own in flight; its handlers are kept, and a  *)
(* setHandler call gives its directory a Subscription.                     *)
(***************************************************************************)
C20_RestartCoverage ==
    [][/\ (last.op = "stopWatching" /\ last'.op = "startWatching" /\ ~last'.thrown) =>
             /\ DOMAIN watchers' = EffectiveDirectories
             /\ dirHandlers' = dirHandlers
             /\ \A d \in DOMAIN dirHandlers \ EffectiveDirectories :
                   /\ d \notin DOMAIN watchers'
                   /\ \A n \in pending' : n.directory # d
       /\ last'.op = "setHandler" => last'.args[1] \in DOMAIN watchers']_vars

\* after stopWatching and startWatching the base directory has a
\* Subscription and /w/a/b, which has a handler, has none
C20_Witness ==
    /\ last.op = "startWatching"
    /\ ~last.thrown
    /\ DirAB \in DOMAIN dirHandlers
    /\ DirAB \notin DOMAIN watchers
    /\ DOMAIN watchers = EffectiveDirectories
    /\ nextWatcher > 2

=============================================================================
